---- MODULE Spec2Model ----
(***************************************************************************)
(* The launcher of _CopypointProject/main.cpp: WinMain asks the OS for the *)
(* path of its own executable, cuts it at the last '\', appends "\run.bat" *)
(* and hands the result to the shell's "open" action, then returns 0.      *)
(*                                                                         *)
(* Memory is modelled byte by byte: mem[1..MAX_PATH] is the local array    *)
(* exePath (exePath[k] is mem[k+1]) and mem[MAX_PATH+1..MemSize] are the   *)
(* bytes of the stack frame that follow it.  A C string is the run of      *)
(* bytes before the first NUL.  Characters are one-letter strings.         *)
(*                                                                         *)
(* Writing or reading past the end of exePath is undefined behaviour.  Its *)
(* outcome is fixed by how the binary was built (variable build):          *)
(*   "unchecked"  the access lands in the neighbouring stack bytes and     *)
(*                nothing ever looks at them again;                        *)
(*   "cookie"     the access lands in the neighbouring stack bytes and the *)
(*                function epilogue finds the frame damaged and aborts;    *)
(*   "checked"    the access itself is trapped (fortified or sanitised     *)
(*                string routines) and the process is aborted there.       *)
(***************************************************************************)
EXTENDS Integers, Sequences, FiniteSets, TLC

VARIABLES
    build,        \* how out-of-bounds accesses of this binary end
    truePath,     \* the executable's full path as the OS knows it
    queryFails,   \* OS outcome: GetModuleFileNameA fails and writes nothing
    launchOk,     \* OS outcome: run.bat exists and has a handler
    lpCmdLine,    \* WinMain argument
    nCmdShow,     \* WinMain argument
    image,        \* name of the stack contents at entry to WinMain
    mem,          \* exePath followed by the neighbouring stack bytes
    p,            \* char *p as an index into mem, NULLP when null
    pc,           \* position of the process in WinMain
    smashed,      \* a byte outside exePath has been written
    calls,        \* the library and OS calls made by this run, in order
    requests,     \* the shell-open requests issued by this run
    exit,         \* how the process ended
    companion,    \* the process spawned for run.bat by this run
    runNo,        \* number of launcher processes started so far
    totalRequests,\* shell-open requests issued by all runs so far
    prev          \* summary of the previous run of the launcher

\* what one process is given and never writes
inputs == <<build, truePath, queryFails, launchOk, lpCmdLine, nCmdShow, image>>

\* what is known of the runs before this one
history == <<runNo, prev>>

vars == <<inputs, mem, p, pc, smashed, calls, requests, exit, companion,
          totalRequests, history>>

----------------------------------------------------------------------------
(* Program constants *)

MAX_PATH == 260

SW_SHOWNORMAL == 1

NUL == "NUL"

NULL == "NULL"

NULLP == 0

SEP == "\\"

\* the literal "\\run.bat" of line 22
Suffix == <<"\\", "r", "u", "n", ".", "b", "a", "t">>

----------------------------------------------------------------------------
(* Bounds of the model *)

\* stack bytes modelled after exePath
Adjacent == 16

\* longest enumerated file-name part of a path
MaxTail == 2

\* launcher processes started one after the other in RunsSpec
MaxRuns == 2

MemSize == MAX_PATH + Adjacent

----------------------------------------------------------------------------
(* Small helpers *)

Fill(c, n) == [i \in 1..n |-> c]

----------------------------------------------------------------------------
(* The C string routines, computed over memory as the library computes them *)

\* the indices in lo..hi whose byte is c
Hits(m, c, lo, hi) == {i \in lo..hi : m[i] = c}

Least(S) == CHOOSE i \in S : \A j \in S : i <= j

Greatest(S) == CHOOSE i \in S : \A j \in S : j <= i

\* strlen: bytes before the first NUL
Strlen(m) == Least(Hits(m, NUL, 1, Len(m))) - 1

\* the C string that starts at mem[1]
CStr(m) == SubSeq(m, 1, Strlen(m))

\* strchr in place of strrchr: the first separator, not the last
StrchrFirst(m, c) ==
    IF Hits(m, c, 1, Strlen(m)) = {} THEN NULLP
    ELSE Least(Hits(m, c, 1, Strlen(m)))

\* strrchr: index of the last byte equal to c before the first NUL, or NULLP
Strrchr(m, c) ==
    IF Hits(m, c, 1, Strlen(m)) = {} THEN NULLP
    ELSE Greatest(Hits(m, c, 1, Strlen(m)))

\* w copied into m from index at on
StoreAt(m, at, w) == SubSeq(m, 1, at - 1) \o w \o SubSeq(m, at + Len(w), Len(m))

\* strcpy in place of strcat: src and a terminator copied to the start
StrcpyOver(m, src) == StoreAt(m, 1, src \o <<NUL>>)

\* strcat: src and a terminator copied over the NUL that ends the string
Strcat(m, src) == StoreAt(m, Strlen(m) + 1, src \o <<NUL>>)

\* GetModuleFileNameA(NULL, buf, nSize), as documented for the Windows
\* versions in support: the path and a terminator when they fit in nSize
\* bytes, else the first nSize-1 characters and a terminator
ModuleFileName(path, nSize) ==
    IF Len(path) < nSize THEN path \o <<NUL>>
    ELSE SubSeq(path, 1, nSize - 1) \o <<NUL>>

----------------------------------------------------------------------------
(* Inputs: what the OS and the caller can hand to one run *)

\* the two paths the documentation works through
ExampleDeep ==
    <<"C", ":", "\\", "T", "o", "o", "l", "s", "\\", "A", "p", "p", "\\",
      "A", "p", "p", ".", "e", "x", "e">>

ExampleBare == <<"A", "p", "p", ".", "e", "x", "e">>

\* "C:\ddd...d" of length n, a directory prefix on a drive
DrivePrefix(n) ==
    [i \in 1..n |-> IF i = 1 THEN "C" ELSE IF i = 2 THEN ":"
                    ELSE IF i = 3 THEN SEP ELSE "d"]

RECURSIVE SeqsOfLen(_, _)
SeqsOfLen(S, n) ==
    IF n = 0 THEN {<<>>}
    ELSE {Append(s, c) : s \in SeqsOfLen(S, n - 1), c \in S}

Tails == UNION {SeqsOfLen({SEP, "a"}, n) : n \in 0..MaxTail}

\* prefix lengths: none, a bare drive, and those that bring the whole path
\* to within a suffix of the capacity of exePath and just beyond it
PrefixLens ==
    {0, 3}
    \cup ((MAX_PATH - Len(Suffix) - MaxTail)..(MAX_PATH - Len(Suffix) + 1))
    \cup ((MAX_PATH - MaxTail)..(MAX_PATH + 1))

\* the paths used when several runs follow one another: the two examples
\* and a path of MAX_PATH-1 characters with a one-letter file name
RunPaths ==
    {ExampleDeep, ExampleBare, DrivePrefix(MAX_PATH - 3) \o <<SEP, "a">>}

SelfPaths ==
    RunPaths
    \cup {q \in {DrivePrefix(n) \o t : n \in PrefixLens, t \in Tails} : Len(q) > 0}
    \cup {q \in {Fill("n", n) \o t : n \in PrefixLens, t \in Tails} : Len(q) > 0}

\* the stack contents used when several runs follow one another
RunImages == {"zero", "unterminated"}

\* contents of the uninitialised stack frame at entry to WinMain
ImageNames == {"zero", "stale", "unterminated", "unterminatedSep"}

StackImage(name) ==
    CASE name = "zero" -> Fill(NUL, MemSize)
      [] name = "stale" ->
            [i \in 1..MemSize |->
                IF i <= 4 THEN <<"Z", ":", SEP, "o">>[i] ELSE NUL]
      [] name = "unterminated" ->
            [i \in 1..MemSize |-> IF i <= MAX_PATH + 2 THEN "g" ELSE NUL]
      [] name = "unterminatedSep" ->
            [i \in 1..MemSize |->
                IF i = MAX_PATH + 2 THEN SEP
                ELSE IF i <= MAX_PATH + 3 THEN "g" ELSE NUL]

Builds == {"unchecked", "cookie", "checked"}

\* what a caller may pass: no arguments and the default show state, or a
\* command line and a minimised window
CallerArgs ==
    {[lpCmdLine |-> "", nCmdShow |-> SW_SHOWNORMAL],
     [lpCmdLine |-> "/quiet", nCmdShow |-> 7]}

Inputs(paths, images) ==
    [truePath : paths, queryFails : BOOLEAN, launchOk : BOOLEAN,
     args : CallerArgs, image : images]

\* the enumeration is kept small: the OS is made to fail on the documented
\* example paths only, and the two stack images that differ only in bytes a
\* successful query overwrites or never reads are left to the failing runs
Admissible(in) ==
    /\ in.queryFails => in.truePath \in {ExampleDeep, ExampleBare}
    /\ ~in.queryFails => in.image \in {"zero", "unterminated"}

----------------------------------------------------------------------------
(* The process *)

NotExited == [kind |-> "none"]

Returned(v) == [kind |-> "return", value |-> v]

Aborted == [kind |-> "abnormal"]

Terminated == pc \in {"returned", "aborted"}

\* the process is killed where it stands
Abort ==
    /\ pc' = "aborted"
    /\ exit' = Aborted

\* a new process at entry to WinMain, given input in
Entry(in) ==
    /\ truePath = in.truePath
    /\ queryFails = in.queryFails
    /\ launchOk = in.launchOk
    /\ lpCmdLine = in.args.lpCmdLine
    /\ nCmdShow = in.args.nCmdShow
    /\ image = in.image
    /\ mem = StackImage(in.image)
    /\ p = NULLP
    /\ pc = "GetModuleFileNameA"
    /\ smashed = FALSE
    /\ calls = <<>>
    /\ requests = <<>>
    /\ exit = NotExited
    /\ companion = "none"

InitOver(paths, images) ==
    /\ build \in Builds
    /\ \E in \in Inputs(paths, images) : Admissible(in) /\ Entry(in)
    /\ runNo = 1
    /\ totalRequests = 0
    /\ prev = <<>>

Init == InitOver(SelfPaths, ImageNames)

\* line 13: the return value is dropped; on failure nothing is written
GetModuleFileNameA ==
    /\ pc = "GetModuleFileNameA"
    /\ mem' = IF queryFails THEN mem
              ELSE StoreAt(mem, 1, ModuleFileName(truePath, MAX_PATH))
    /\ calls' = Append(calls, "GetModuleFileNameA")
    /\ pc' = "strrchr"
    /\ UNCHANGED <<inputs, p, smashed, requests, exit, companion,
                   totalRequests, history>>

\* line 16: the scan runs to the first NUL, wherever that is
StrrchrCall ==
    /\ pc = "strrchr"
    /\ calls' = Append(calls, "strrchr")
    /\ IF Strlen(mem) >= MAX_PATH /\ build = "checked"
       THEN Abort /\ UNCHANGED p
       ELSE /\ p' = Strrchr(mem, SEP)
            /\ pc' = "if"
            /\ UNCHANGED exit
    /\ UNCHANGED <<inputs, mem, smashed, requests, companion, totalRequests,
                   history>>

\* lines 17-19
Truncate ==
    /\ pc = "if"
    /\ IF p # NULLP
       THEN /\ mem' = [mem EXCEPT ![p] = NUL]
            /\ smashed' = (smashed \/ p > MAX_PATH)
       ELSE UNCHANGED <<mem, smashed>>
    /\ pc' = "strcat"
    /\ UNCHANGED <<inputs, p, calls, requests, exit, companion, totalRequests,
                   history>>

\* line 22: the suffix and its terminator go in whether or not they fit
StrcatCall ==
    /\ pc = "strcat"
    /\ calls' = Append(calls, "strcat")
    /\ IF Strlen(mem) + Len(Suffix) + 1 > MAX_PATH /\ build = "checked"
       THEN Abort /\ UNCHANGED <<mem, smashed>>
       ELSE /\ mem' = Strcat(mem, Suffix)
            /\ smashed' = (smashed \/ Strlen(mem) + Len(Suffix) + 1 > MAX_PATH)
            /\ pc' = "ShellExecuteA"
            /\ UNCHANGED exit
    /\ UNCHANGED <<inputs, p, requests, companion, totalRequests, history>>

\* the window state of the caller passed on in place of SW_SHOWNORMAL
OpenRequestCallerShow ==
    [hwnd |-> NULL, lpOperation |-> "open", lpFile |-> CStr(mem),
     lpParameters |-> NULL, lpDirectory |-> NULL, nShowCmd |-> nCmdShow]

\* the command line of the caller passed on in place of no parameters
OpenRequestCallerArgs ==
    [hwnd |-> NULL, lpOperation |-> "open", lpFile |-> CStr(mem),
     lpParameters |-> lpCmdLine, lpDirectory |-> NULL,
     nShowCmd |-> SW_SHOWNORMAL]

\* lines 25-32: the arguments of the call
OpenRequest ==
    [hwnd |-> NULL, lpOperation |-> "open", lpFile |-> CStr(mem),
     lpParameters |-> NULL, lpDirectory |-> NULL, nShowCmd |-> SW_SHOWNORMAL]

\* lines 25-32: the call returns once the request is handed over; its result
\* is dropped
ShellExecuteA ==
    /\ pc = "ShellExecuteA"
    /\ calls' = Append(calls, "ShellExecuteA")
    /\ requests' = Append(requests, OpenRequest)
    /\ totalRequests' = totalRequests + 1
    /\ companion' = IF launchOk THEN "running" ELSE companion
    /\ pc' = "return"
    /\ UNCHANGED <<inputs, mem, p, smashed, exit, history>>

\* the launcher waits for the companion before it returns
ReturnAfterCompanion ==
    /\ pc = "return"
    /\ companion # "running"
    /\ IF smashed /\ build = "cookie"
       THEN Abort
       ELSE /\ pc' = "returned"
            /\ exit' = Returned(0)
    /\ UNCHANGED <<inputs, mem, p, smashed, calls, requests, companion,
                   totalRequests, history>>

\* line 34
Return ==
    /\ pc = "return"
    /\ IF smashed /\ build = "cookie"
       THEN Abort
       ELSE /\ pc' = "returned"
            /\ exit' = Returned(0)
    /\ UNCHANGED <<inputs, mem, p, smashed, calls, requests, companion,
                   totalRequests, history>>

\* the spawned interpreter of run.bat ends on its own, if it ever does
CompanionExit ==
    /\ companion = "running"
    /\ companion' = "finished"
    /\ UNCHANGED <<inputs, mem, p, pc, smashed, calls, requests, exit,
                   totalRequests, history>>

\* what a finished run leaves to compare the next one with
Summary ==
    [truePath |-> truePath, queryFails |-> queryFails, launchOk |-> launchOk,
     image |-> image, lpCmdLine |-> lpCmdLine, nCmdShow |-> nCmdShow,
     calls |-> calls, requests |-> requests, exit |-> exit]

\* the same binary is started again once the previous process has ended
Relaunch ==
    /\ Terminated
    /\ runNo < MaxRuns
    /\ runNo' = runNo + 1
    /\ prev' = <<Summary>>
    /\ \E in \in Inputs(RunPaths, RunImages) :
          /\ Admissible(in)
          /\ truePath' = in.truePath
          /\ queryFails' = in.queryFails
          /\ launchOk' = in.launchOk
          /\ lpCmdLine' = in.args.lpCmdLine
          /\ nCmdShow' = in.args.nCmdShow
          /\ image' = in.image
          /\ mem' = StackImage(in.image)
    /\ p' = NULLP
    /\ pc' = "GetModuleFileNameA"
    /\ smashed' = FALSE
    /\ calls' = <<>>
    /\ requests' = <<>>
    /\ exit' = NotExited
    /\ companion' = "none"
    /\ UNCHANGED <<build, totalRequests>>

Launcher ==
    \/ GetModuleFileNameA
    \/ StrrchrCall
    \/ Truncate
    \/ StrcatCall
    \/ ShellExecuteA
    \/ Return

Next == Launcher \/ CompanionExit

\* one run of the launcher
Spec == Init /\ [][Next]_vars

InitRuns == InitOver(RunPaths, RunImages)

\* one run: the launcher is scheduled until it ends, and nothing makes the
\* companion end
FairSpec == Init /\ [][Next]_vars /\ WF_vars(Launcher)

NextRuns == Launcher \/ CompanionExit \/ Relaunch

\* runs of the launcher one after the other
RunsSpec == InitRuns /\ [][NextRuns]_vars

----------------------------------------------------------------------------
(* What the properties speak of *)

\* the self path the query returned: what it stored, without the terminator
SelfPath ==
    LET w == ModuleFileName(truePath, MAX_PATH)
    IN  SubSeq(w, 1, Len(w) - 1)

HasSep(s) == \E i \in 1..Len(s) : s[i] = SEP

LastSep(s) ==
    CHOOSE i \in 1..Len(s) :
        s[i] = SEP /\ \A j \in (i + 1)..Len(s) : s[j] # SEP

\* the part of s before its last separator
ContainingDir(s) == SubSeq(s, 1, LastSep(s) - 1)

\* the order of the calls in WinMain
FixedOrder == <<"GetModuleFileNameA", "strrchr", "strcat", "ShellExecuteA">>

IsPrefix(s, t) == Len(s) <= Len(t) /\ s = SubSeq(t, 1, Len(s))

EndsWith(s, t) ==
    Len(s) >= Len(t) /\ SubSeq(s, Len(s) - Len(t) + 1, Len(s)) = t

\* the previous run had the same self path and met the same OS outcomes
SameAsPrev ==
    /\ prev # <<>>
    /\ prev[1].truePath = truePath
    /\ prev[1].queryFails = queryFails
    /\ prev[1].launchOk = launchOk
    /\ prev[1].image = image

----------------------------------------------------------------------------
(* C1: when the self path returned by the query holds a separator, the   *)
(* file of every shell-open request is the part of the self path before  *)
(* its last separator, followed by "\run.bat".                           *)
C1_PathDerivation ==
    (~queryFails /\ HasSep(SelfPath)) =>
        \A k \in 1..Len(requests) :
            requests[k].lpFile = ContainingDir(SelfPath) \o Suffix

C1_Witness ==
    /\ ~queryFails
    /\ truePath = ExampleDeep
    /\ Len(requests) = 1
    /\ requests[1].lpFile =
          <<"C", ":", "\\", "T", "o", "o", "l", "s", "\\", "A", "p", "p",
            "\\", "r", "u", "n", ".", "b", "a", "t">>

(* C2: when the self path returned by the query holds no separator, the  *)
(* truncation step leaves the string as it was and the file of every     *)
(* shell-open request is the whole self path followed by "\run.bat".     *)
C2_NoSeparator ==
    (~queryFails /\ ~HasSep(SelfPath)) =>
        /\ pc = "strcat" => (p = NULLP /\ CStr(mem) = SelfPath)
        /\ \A k \in 1..Len(requests) :
              requests[k].lpFile = SelfPath \o Suffix

C2_Witness ==
    /\ ~queryFails
    /\ truePath = ExampleBare
    /\ Len(requests) = 1
    /\ requests[1].lpFile =
          <<"A", "p", "p", ".", "e", "x", "e",
            "\\", "r", "u", "n", ".", "b", "a", "t">>

(* C3: every run that has ended has ended by returning 0, whatever the   *)
(* query, the companion file and the shell-open call did.                *)
C3_ExitAlwaysZero == Terminated => exit = Returned(0)

(* C4: the launcher ends on every run, whether or not the companion it   *)
(* launched ever ends.                                                   *)
C4_LauncherTerminates == <>Terminated

C4_Witness == Terminated /\ companion = "running"

(* C5: a run that had the same self path and the same OS outcomes as the *)
(* run before it made the same calls, issued the same shell-open         *)
(* requests and ended the same way, whatever the two command lines and   *)
(* show states were.                                                     *)
C5_ArgumentsIgnored ==
    (Terminated /\ SameAsPrev) =>
        /\ calls = prev[1].calls
        /\ requests = prev[1].requests
        /\ exit = prev[1].exit

C5_Witness ==
    /\ Terminated
    /\ SameAsPrev
    /\ lpCmdLine # prev[1].lpCmdLine
    /\ nCmdShow # prev[1].nCmdShow
    /\ Len(requests) = 1

(* C6: after n runs exactly n shell-open requests have been issued, one  *)
(* per run, and a run with the self path and OS outcomes of the run      *)
(* before it issues the same request and ends with the same status.      *)
C6_IndependentRuns ==
    /\ totalRequests = (IF Len(requests) = 1 THEN runNo ELSE runNo - 1)
    /\ Terminated => Len(requests) = 1
    /\ (Terminated /\ SameAsPrev) =>
          (requests = prev[1].requests /\ exit = prev[1].exit)

(* C7: every shell-open request has the action "open", the built         *)
(* companion path as its file, no parent window, no parameters, no       *)
(* working directory and the show-normal window state.                   *)
C7_OpenParameters ==
    \A k \in 1..Len(requests) :
        /\ requests[k].hwnd = NULL
        /\ requests[k].lpOperation = "open"
        /\ requests[k].lpFile = CStr(mem)
        /\ EndsWith(requests[k].lpFile, Suffix)
        /\ requests[k].lpParameters = NULL
        /\ requests[k].lpDirectory = NULL
        /\ requests[k].nShowCmd = SW_SHOWNORMAL

C7_Witness ==
    /\ Len(requests) = 1
    /\ nCmdShow # SW_SHOWNORMAL
    /\ lpCmdLine # ""

(* C8: the calls of a run are made in the fixed order query, truncation, *)
(* append, shell-open; the shell-open request is issued exactly once per *)
(* run, after the path is built; a run that has ended made every call    *)
(* once and returned.                                                    *)
C8_StraightLine ==
    /\ IsPrefix(calls, FixedOrder)
    /\ Len(requests) <= 1
    /\ Len(requests) = 1 =>
          (Len(calls) = Len(FixedOrder) /\ EndsWith(CStr(mem), Suffix))
    /\ Terminated =>
          (calls = FixedOrder /\ Len(requests) = 1 /\ pc = "returned")

(* C9: whatever the query did, the run goes through truncation and       *)
(* append, issues exactly one shell-open request and returns; it never   *)
(* ends early or in an error state.                                      *)
C9_QueryOutcomeNeverStops ==
    /\ pc # "aborted"
    /\ pc = "returned" => (calls = FixedOrder /\ Len(requests) = 1)

(* C10: for every self path the query stored, the string left by the     *)
(* append fits in exePath with its terminator, and no byte outside       *)
(* exePath is written.                                                   *)
C10_BufferNeverOverrun ==
    (~queryFails /\ pc \in {"ShellExecuteA", "return", "returned"}) =>
        (Strlen(mem) + 1 <= MAX_PATH /\ ~smashed)
====
